---- MODULE Spec2Model ----
(***************************************************************************)
(* Model of the two programs of ziniyat/lab2.                              *)
(*   variant A  src/1.cpp  QuantumSimulator     (workers, 4 processors)    *)
(*   variant B  src/2.cpp  EnergyMonitorSystem  (stations, one server)     *)
(* A run is a run of one of the two programs; prog says which.             *)
(* Every section guarded by a boost::mutex is one atomic step; what lies   *)
(* between two sections (a notify, a semaphore wait or post, a read of an  *)
(* atomic flag) is a step of its own.  A section leaves its mutex free;    *)
(* LockSpec makes the lock() that opens a section a step of its own.       *)
(***************************************************************************)
EXTENDS Integers, FiniteSets, Bags

\* ---------------------------------------------------------------- bounds
\* The source runs 10 workers on 4 processors behind a semaphore of 4, and
\* 10 stations; the model keeps the proportions (more workers than slots, a
\* slot per processor) at a size TLC can enumerate.
NumWorkers == 3      \* worker threads created by QuantumSimulator::start()
NumProcessors == 1   \* processors 0 .. NumProcessors-1
MaxTaskId == 1       \* ids next_task_id may hand out
NumStations == 1     \* station threads created by EnergyMonitorSystem::start()
MaxPackets == 2      \* packets in data_packets at a time
MaxQueue == 2        \* tasks in the queue at a time under a steady trickle

SemCapacity == NumProcessors   \* task_semaphore(4): a slot per processor

\* ------------------------------------------------------ program constants
max_load == 100
base_handlers == 2
MaxAdditional == 3   \* additional_handlers < 3
HighLoad == 80       \* load > 80
LowLoad == 50        \* new_load < 50
ShedPriority == 3    \* packet.priority > 3

\* ------------------------------------------------------------ input sets
\* sample of the (priority, is_critical) pairs of 1..5 x bool: 1 is the
\* highest priority; 3 and 4 lie on both sides of the emergency threshold
TaskKinds == {<<3, FALSE>>, <<4, FALSE>>, <<4, TRUE>>}
CallerIds == {1, 2}  \* sample of the ids 1..40 main() passes to add_task
Rand400 == {399}     \* sample of rand() % 400

Main == 0
Workers == 1..NumWorkers
Threads == {Main} \cup Workers
Processors == 0..(NumProcessors - 1)
Stations == 1..NumStations
Server == NumStations + 1
ThreadsB == {Main} \cup Stations \cup {Server}

NoTask == [priority |-> 0, is_critical |-> FALSE, task_id |-> 0]

VARIABLES
    prog,                  \* "A" or "B": the program that runs
    shutdown,              \* std::atomic<bool> shutdown (both programs)
    \* ---- variant A
    tasks,                 \* std::priority_queue<Task>, as a bag
    next_task_id,          \* std::atomic<int> next_task_id
    task_semaphore,        \* count of the interprocess_semaphore
    processor_status,      \* std::map<int,bool>
    processor_task_count,  \* std::map<int,int>
    pc,                    \* position of every thread of variant A
    current_task,          \* worker_thread's local current_task
    processor_id,          \* worker_thread's local processor_id
    tasks_to_redirect,     \* processor_failure's local, per calling thread
    redirected,            \* processor_failure's loop variable i
    submitted,             \* main()'s loop variable i of the add_task loop
    task_mutex,            \* boost::mutex task_mutex: the set of its owner
    processor_mutex,       \* boost::mutex processor_mutex: the set of its owner
    \* ---- variant B
    data_packets,          \* std::priority_queue<DataPacket>, as a bag
    data_semaphore,        \* count of the interprocess_semaphore
    current_load,          \* std::atomic<int> current_load
    additional_handlers,   \* std::atomic<int> additional_handlers
    emergency_mode,        \* std::atomic<bool> emergency_mode
    bpc,                   \* position of every thread of variant B
    packet,                \* server_handler's local packet
    load,                  \* server_handler's local load
    processing_time        \* server_handler's local processing_time

varsA == <<tasks, next_task_id, task_semaphore, processor_status,
           processor_task_count, pc, current_task, processor_id,
           tasks_to_redirect, redirected, submitted, task_mutex,
           processor_mutex>>
varsA_but_pc == <<tasks, next_task_id, task_semaphore, processor_status,
                  processor_task_count, current_task, processor_id,
                  tasks_to_redirect, redirected, submitted>>
varsB == <<data_packets, data_semaphore, current_load, additional_handlers,
           emergency_mode, bpc, packet, load, processing_time>>
varsB_but_bpc == <<data_packets, data_semaphore, current_load,
                   additional_handlers, emergency_mode, packet, load,
                   processing_time>>
vars == <<prog, shutdown, varsA, varsB>>

\* ------------------------------------------------------------- Task order
\* Mutant of Less: the numeric priority alone decides.
LessIgnoresCritical(a, b) == a.priority > b.priority

\* Task::operator<  (a < b: a is served after b)
Less(a, b) ==
    IF a.is_critical # b.is_critical
    THEN ~a.is_critical
    ELSE a.priority > b.priority

\* std::priority_queue::top(): an element no other element is greater than;
\* which one among equals is left to the library's heap.
IsTop(q, x) == BagIn(x, q) /\ \A y \in BagToSet(q) : ~Less(x, y)

Push(q, x) == q (+) SetToBag({x})
Pop(q, x) == q (-) SetToBag({x})

\* ------------------------------------------------------------------ Init
InitA ==
    /\ tasks = EmptyBag
    /\ next_task_id = 1
    /\ task_semaphore = SemCapacity
    /\ processor_status = [p \in Processors |-> TRUE]
    /\ processor_task_count = [p \in Processors |-> 0]
    /\ current_task = [w \in Workers |-> NoTask]
    /\ processor_id = [w \in Workers |-> -1]
    /\ tasks_to_redirect = [t \in Threads |-> 0]
    /\ redirected = [t \in Threads |-> 0]
    /\ submitted = 0
    /\ task_mutex = {}
    /\ processor_mutex = {}

NoPacket == [priority |-> 0, is_critical |-> FALSE, station_id |-> 0]

InitB ==
    /\ data_packets = EmptyBag
    /\ data_semaphore = base_handlers
    /\ current_load = 0
    /\ additional_handlers = 0
    /\ emergency_mode = FALSE
    /\ packet = NoPacket
    /\ load = 0
    /\ processing_time = 0

\* start() has created the threads of the program that runs; the threads of
\* the other program do not exist.
Init ==
    /\ prog \in {"A", "B"}
    /\ shutdown = FALSE
    /\ InitA
    /\ InitB
    /\ pc = [t \in Threads |-> IF prog # "A" THEN "off"
                               ELSE IF t = Main THEN "run" ELSE "top"]
    /\ bpc = [t \in ThreadsB |-> IF prog # "B" THEN "off"
                                 ELSE IF t = Main THEN "run" ELSE "top"]

\* ------------------------------------------------- condition variable
Waiting == {w \in Workers : pc[w] = "waiting"}

\* pc after thread t has called task_condition.notify_one() and gone on to
\* position next: one waiter, if there is any, has become runnable.
NotifyOne(t, next) ==
    IF Waiting = {}
    THEN {[pc EXCEPT ![t] = next]}
    ELSE {[pc EXCEPT ![t] = next, ![w] = "top"] : w \in Waiting}

\* Mutant of NotifyAll: a notify_one() in its place.
NotifyAllWakesOne(t, next) ==
    IF Waiting = {}
    THEN [pc EXCEPT ![t] = next]
    ELSE [pc EXCEPT ![t] = next, ![CHOOSE w \in Waiting : TRUE] = "top"]

\* pc after thread t has called task_condition.notify_all()
NotifyAll(t, next) ==
    [x \in Threads |->
        IF x = t THEN next
        ELSE IF pc[x] = "waiting" THEN "top" ELSE pc[x]]

\* ---------------------------------------------------------------- add_task
\* add_task(priority, is_critical, task_id) called by thread t, which goes on
\* to position next: the push under task_mutex, then notify_one()
AddTask(t, priority, is_critical, task_id, next) ==
    /\ LET actual_id == IF task_id = -1 THEN next_task_id ELSE task_id
       IN  tasks' = Push(tasks, [priority |-> priority,
                                 is_critical |-> is_critical,
                                 task_id |-> actual_id])
    /\ next_task_id' = IF task_id = -1 THEN next_task_id + 1 ELSE next_task_id
    /\ pc' \in NotifyOne(t, next)

\* --------------------------------------------------------- main thread, A
\* main(): simulator.add_task(priority, is_critical, i + 1) of the loop
MainAddTask(priority, is_critical) ==
    /\ prog = "A"
    /\ pc[Main] = "run"
    /\ submitted + 1 \in CallerIds
    /\ AddTask(Main, priority, is_critical, submitted + 1, "run")
    /\ submitted' = submitted + 1
    /\ UNCHANGED <<varsB, prog, shutdown, task_semaphore, processor_status,
                   processor_task_count, current_task, processor_id,
                   tasks_to_redirect, redirected>>
    /\ task_mutex' = {} /\ UNCHANGED processor_mutex

\* Position a thread returns to when processor_failure returns.
AfterFailure(t) == IF t = Main THEN "run" ELSE "select"

\* Ids that calls of processor_failure still under way will draw.
RECURSIVE PendingIds(_)
PendingIds(S) ==
    IF S = {} THEN 0
    ELSE LET t == CHOOSE x \in S : TRUE
         IN  (tasks_to_redirect[t] - redirected[t]) + PendingIds(S \ {t})

\* Mutant of ProcessorFailure: the count is zeroed before it is read.
ProcessorFailureZeroFirst(t, p) ==
    /\ prog = "A"
    /\ pc[t] = IF t = Main THEN "run" ELSE "prehook"
    /\ IF ~processor_status[p]
       THEN /\ pc' = [pc EXCEPT ![t] = AfterFailure(t)]
            /\ UNCHANGED <<processor_status, processor_task_count,
                           tasks_to_redirect, redirected>>
       ELSE /\ processor_status' = [processor_status EXCEPT ![p] = FALSE]
            /\ processor_task_count' = [processor_task_count EXCEPT ![p] = 0]
            /\ tasks_to_redirect' = [tasks_to_redirect EXCEPT ![t] = 0]
            /\ redirected' = [redirected EXCEPT ![t] = 0]
            /\ pc' = [pc EXCEPT ![t] = AfterFailure(t)]
    /\ UNCHANGED <<varsB, prog, shutdown, tasks, next_task_id, task_semaphore,
                   current_task, processor_id, submitted>>
    /\ processor_mutex' = {} /\ UNCHANGED task_mutex

\* Mutant of ProcessorFailure: the lock.unlock() before the loop is missing,
\* so add_task is called with processor_mutex held.
ProcessorFailureKeepsLock(t, p) ==
    /\ prog = "A"
    /\ pc[t] = IF t = Main THEN "run" ELSE "prehook"
    /\ IF ~processor_status[p]
       THEN /\ pc' = [pc EXCEPT ![t] = AfterFailure(t)]
            /\ processor_mutex' = {}
            /\ UNCHANGED <<processor_status, processor_task_count,
                           tasks_to_redirect, redirected>>
       ELSE /\ next_task_id + PendingIds(Threads) + processor_task_count[p] - 1
                   <= MaxTaskId
            /\ processor_status' = [processor_status EXCEPT ![p] = FALSE]
            /\ tasks_to_redirect' =
                   [tasks_to_redirect EXCEPT ![t] = processor_task_count[p]]
            /\ processor_task_count' = [processor_task_count EXCEPT ![p] = 0]
            /\ redirected' = [redirected EXCEPT ![t] = 0]
            /\ pc' = [pc EXCEPT ![t] = IF processor_task_count[p] > 0
                                       THEN "redirect" ELSE AfterFailure(t)]
            /\ processor_mutex' = IF processor_task_count[p] > 0
                                  THEN processor_mutex ELSE {}
    /\ UNCHANGED <<varsB, prog, shutdown, tasks, next_task_id, task_semaphore,
                   current_task, processor_id, submitted>>
    /\ UNCHANGED task_mutex

\* processor_failure(processor_id) up to lock.unlock(), called by thread t
ProcessorFailure(t, p) ==
    /\ prog = "A"
    /\ pc[t] = IF t = Main THEN "run" ELSE "prehook"
    /\ IF ~processor_status[p]
       THEN /\ pc' = [pc EXCEPT ![t] = AfterFailure(t)]
            /\ UNCHANGED <<processor_status, processor_task_count,
                           tasks_to_redirect, redirected>>
       ELSE /\ next_task_id + PendingIds(Threads) + processor_task_count[p] - 1
                   <= MaxTaskId
            /\ processor_status' = [processor_status EXCEPT ![p] = FALSE]
            /\ tasks_to_redirect' =
                   [tasks_to_redirect EXCEPT ![t] = processor_task_count[p]]
            /\ processor_task_count' = [processor_task_count EXCEPT ![p] = 0]
            /\ redirected' = [redirected EXCEPT ![t] = 0]
            /\ pc' = [pc EXCEPT ![t] = IF processor_task_count[p] > 0
                                       THEN "redirect" ELSE AfterFailure(t)]
    /\ UNCHANGED <<varsB, prog, shutdown, tasks, next_task_id, task_semaphore,
                   current_task, processor_id, submitted>>
    /\ processor_mutex' = {} /\ UNCHANGED task_mutex

\* one iteration of processor_failure's loop:
\* add_task(1 + rand() % 5, rand() % 10 == 0), then ++i and the loop test
Redirect(t, priority, is_critical) ==
    /\ prog = "A"
    /\ pc[t] = "redirect"
    /\ IF redirected[t] + 1 < tasks_to_redirect[t]
       THEN /\ AddTask(t, priority, is_critical, -1, "redirect")
            /\ redirected' = [redirected EXCEPT ![t] = redirected[t] + 1]
            /\ UNCHANGED tasks_to_redirect
       ELSE /\ AddTask(t, priority, is_critical, -1, AfterFailure(t))
            /\ redirected' = [redirected EXCEPT ![t] = 0]
            /\ tasks_to_redirect' = [tasks_to_redirect EXCEPT ![t] = 0]
    /\ UNCHANGED <<varsB, prog, shutdown, task_semaphore, processor_status,
                   processor_task_count, current_task, processor_id,
                   submitted>>
    /\ task_mutex' = {} /\ UNCHANGED processor_mutex

\* Mutant of ProcessorRepair: the repair also clears the processor's count,
\* healthy or not.
ProcessorRepairResetsCount(p) ==
    /\ prog = "A"
    /\ pc[Main] = "run"
    /\ processor_status' = [processor_status EXCEPT ![p] = TRUE]
    /\ processor_task_count' = [processor_task_count EXCEPT ![p] = 0]
    /\ UNCHANGED <<varsB, prog, shutdown, tasks, next_task_id, task_semaphore,
                   pc, current_task, processor_id, tasks_to_redirect,
                   redirected, submitted>>
    /\ processor_mutex' = {} /\ UNCHANGED task_mutex

\* processor_repair(processor_id)
ProcessorRepair(p) ==
    /\ prog = "A"
    /\ pc[Main] = "run"
    /\ processor_status' = IF processor_status[p] THEN processor_status
                           ELSE [processor_status EXCEPT ![p] = TRUE]
    /\ UNCHANGED <<varsB, prog, shutdown, tasks, next_task_id, task_semaphore,
                   processor_task_count, pc, current_task, processor_id,
                   tasks_to_redirect, redirected, submitted>>
    /\ processor_mutex' = {} /\ UNCHANGED task_mutex

\* stop(): shutdown = true under task_mutex
Stop ==
    /\ prog = "A"
    /\ pc[Main] = "run"
    /\ shutdown' = TRUE
    /\ pc' = [pc EXCEPT ![Main] = "stop_notify"]
    /\ UNCHANGED <<varsB, prog, varsA_but_pc>>
    /\ task_mutex' = {} /\ UNCHANGED processor_mutex

\* stop(): task_condition.notify_all()
StopNotify ==
    /\ prog = "A"
    /\ pc[Main] = "stop_notify"
    /\ pc' = NotifyAll(Main, "join")
    /\ UNCHANGED <<varsB, prog, shutdown, varsA_but_pc>>
    /\ UNCHANGED <<task_mutex, processor_mutex>>

\* stop(): threads.join_all() returns
StopJoin ==
    /\ prog = "A"
    /\ pc[Main] = "join"
    /\ \A w \in Workers : pc[w] = "done"
    /\ pc' = [pc EXCEPT ![Main] = "stopped"]
    /\ UNCHANGED <<varsB, prog, shutdown, varsA_but_pc>>
    /\ UNCHANGED <<task_mutex, processor_mutex>>

\* ---------------------------------------------------------- worker_thread
\* Mutant of WorkerDequeue: the shutdown flag ends the wait but the worker
\* still takes an item when there is one.
WorkerDequeueAfterShutdown(w) ==
    /\ prog = "A"
    /\ pc[w] = "top"
    /\ IF tasks = EmptyBag
       THEN /\ pc' = [pc EXCEPT ![w] = IF shutdown THEN "done" ELSE "waiting"]
            /\ UNCHANGED <<tasks, current_task>>
       ELSE \E x \in BagToSet(tasks) :
            /\ IsTop(tasks, x)
            /\ current_task' = [current_task EXCEPT ![w] = x]
            /\ tasks' = Pop(tasks, x)
            /\ pc' = [pc EXCEPT ![w] = "sem"]
    /\ UNCHANGED <<varsB, prog, shutdown, next_task_id, task_semaphore,
                   processor_status, processor_task_count, processor_id,
                   tasks_to_redirect, redirected, submitted>>
    /\ task_mutex' = {} /\ UNCHANGED processor_mutex

\* while (!shutdown), then the section under task_mutex: wait for a task,
\* leave on shutdown, else take the top of the queue.  The test of the loop
\* head is repeated inside the section, so both are one step.
WorkerDequeue(w) ==
    /\ prog = "A"
    /\ pc[w] = "top"
    /\ IF shutdown
       THEN /\ pc' = [pc EXCEPT ![w] = "done"]
            /\ UNCHANGED <<tasks, current_task>>
       ELSE IF tasks = EmptyBag
       THEN /\ pc' = [pc EXCEPT ![w] = "waiting"]
            /\ UNCHANGED <<tasks, current_task>>
       ELSE \E x \in BagToSet(tasks) :
            /\ IsTop(tasks, x)
            /\ current_task' = [current_task EXCEPT ![w] = x]
            /\ tasks' = Pop(tasks, x)
            /\ pc' = [pc EXCEPT ![w] = "sem"]
    /\ UNCHANGED <<varsB, prog, shutdown, next_task_id, task_semaphore,
                   processor_status, processor_task_count, processor_id,
                   tasks_to_redirect, redirected, submitted>>
    /\ task_mutex' = {} /\ UNCHANGED processor_mutex

\* task_condition.wait(lock) may return without a notification
SpuriousWakeup(w) ==
    /\ prog = "A"
    /\ pc[w] = "waiting"
    /\ pc' = [pc EXCEPT ![w] = "top"]
    /\ UNCHANGED <<varsB, prog, shutdown, varsA_but_pc>>
    /\ UNCHANGED <<task_mutex, processor_mutex>>

\* Mutant of WorkerAcquire: the worker goes on without waiting for a slot.
WorkerAcquireNoWait(w) ==
    /\ prog = "A"
    /\ pc[w] = "sem"
    /\ task_semaphore' = IF task_semaphore > 0 THEN task_semaphore - 1 ELSE 0
    /\ pc' = [pc EXCEPT ![w] = "prehook"]
    /\ UNCHANGED <<varsB, prog, shutdown, tasks, next_task_id, processor_status,
                   processor_task_count, current_task, processor_id,
                   tasks_to_redirect, redirected, submitted>>
    /\ UNCHANGED <<task_mutex, processor_mutex>>

\* task_semaphore.wait()
WorkerAcquire(w) ==
    /\ prog = "A"
    /\ pc[w] = "sem"
    /\ task_semaphore > 0
    /\ task_semaphore' = task_semaphore - 1
    /\ pc' = [pc EXCEPT ![w] = "prehook"]
    /\ UNCHANGED <<varsB, prog, shutdown, tasks, next_task_id, processor_status,
                   processor_task_count, current_task, processor_id,
                   tasks_to_redirect, redirected, submitted>>
    /\ UNCHANGED <<task_mutex, processor_mutex>>

Healthy == {p \in Processors : processor_status[p]}

\* Mutant of WorkerSelect: the health of the processor is not looked at.
WorkerSelectAnyProcessor(w) ==
    /\ prog = "A"
    /\ pc[w] \in {"prehook", "select"}
    /\ \E p \in Processors :
            /\ processor_id' = [processor_id EXCEPT ![w] = p]
            /\ processor_task_count' =
                   [processor_task_count EXCEPT ![p] = processor_task_count[p] + 1]
            /\ pc' = [pc EXCEPT ![w] = "exec"]
    /\ UNCHANGED <<varsB, prog, shutdown, tasks, next_task_id, task_semaphore,
                   processor_status, current_task, tasks_to_redirect,
                   redirected, submitted>>
    /\ processor_mutex' = {} /\ UNCHANGED task_mutex

\* Mutant of WorkerSelect: the chosen processor is counted twice.
WorkerSelectCountsTwice(w) ==
    /\ prog = "A"
    /\ pc[w] \in {"prehook", "select"}
    /\ IF Healthy # {}
       THEN \E p \in Healthy :
            /\ processor_id' = [processor_id EXCEPT ![w] = p]
            /\ processor_task_count' =
                   [processor_task_count EXCEPT ![p] = processor_task_count[p] + 2]
            /\ pc' = [pc EXCEPT ![w] = "exec"]
       ELSE /\ pc' = [pc EXCEPT ![w] = "requeue"]
            /\ UNCHANGED <<processor_id, processor_task_count>>
    /\ UNCHANGED <<varsB, prog, shutdown, tasks, next_task_id, task_semaphore,
                   processor_status, current_task, tasks_to_redirect,
                   redirected, submitted>>
    /\ processor_mutex' = {} /\ UNCHANGED task_mutex

\* the section under processor_mutex that picks a processor; reached with
\* failure_dist(gen) false, or after processor_failure has returned
WorkerSelect(w) ==
    /\ prog = "A"
    /\ pc[w] \in {"prehook", "select"}
    /\ IF Healthy # {}
       THEN \E p \in Healthy :
            /\ processor_id' = [processor_id EXCEPT ![w] = p]
            /\ processor_task_count' =
                   [processor_task_count EXCEPT ![p] = processor_task_count[p] + 1]
            /\ pc' = [pc EXCEPT ![w] = "exec"]
       ELSE /\ pc' = [pc EXCEPT ![w] = "requeue"]
            /\ UNCHANGED <<processor_id, processor_task_count>>
    /\ UNCHANGED <<varsB, prog, shutdown, tasks, next_task_id, task_semaphore,
                   processor_status, current_task, tasks_to_redirect,
                   redirected, submitted>>
    /\ processor_mutex' = {} /\ UNCHANGED task_mutex

\* Mutant of WorkerRequeue: the item goes back as a non-critical one.
WorkerRequeueLosesCritical(w) ==
    /\ prog = "A"
    /\ pc[w] = "requeue"
    /\ tasks' = Push(tasks, [current_task[w] EXCEPT !.is_critical = FALSE])
    /\ pc' = [pc EXCEPT ![w] = "requeue_post"]
    /\ UNCHANGED <<varsB, prog, shutdown, next_task_id, task_semaphore,
                   processor_status, processor_task_count, current_task,
                   processor_id, tasks_to_redirect, redirected, submitted>>
    /\ task_mutex' = {} /\ UNCHANGED processor_mutex

\* no processor: tasks.push(current_task) under task_mutex
WorkerRequeue(w) ==
    /\ prog = "A"
    /\ pc[w] = "requeue"
    /\ tasks' = Push(tasks, current_task[w])
    /\ pc' = [pc EXCEPT ![w] = "requeue_post"]
    /\ UNCHANGED <<varsB, prog, shutdown, next_task_id, task_semaphore,
                   processor_status, processor_task_count, current_task,
                   processor_id, tasks_to_redirect, redirected, submitted>>
    /\ task_mutex' = {} /\ UNCHANGED processor_mutex

\* Mutant of WorkerRelease: the count of the processor is not given back.
WorkerReleaseNoDecrement(w) ==
    /\ prog = "A"
    /\ pc[w] = "exec"
    /\ pc' = [pc EXCEPT ![w] = "post"]
    /\ UNCHANGED <<varsB, prog, shutdown, tasks, next_task_id, task_semaphore,
                   processor_status, processor_task_count, current_task,
                   processor_id, tasks_to_redirect, redirected, submitted>>
    /\ processor_mutex' = {} /\ UNCHANGED task_mutex

\* the work is over: the section under processor_mutex that gives the
\* processor back
WorkerRelease(w) ==
    /\ prog = "A"
    /\ pc[w] = "exec"
    /\ processor_task_count' =
           IF processor_task_count[processor_id[w]] > 0
           THEN [processor_task_count EXCEPT
                    ![processor_id[w]] = processor_task_count[processor_id[w]] - 1]
           ELSE processor_task_count
    /\ pc' = [pc EXCEPT ![w] = "post"]
    /\ UNCHANGED <<varsB, prog, shutdown, tasks, next_task_id, task_semaphore,
                   processor_status, current_task, processor_id,
                   tasks_to_redirect, redirected, submitted>>
    /\ processor_mutex' = {} /\ UNCHANGED task_mutex

\* task_semaphore.post(), on the requeue path and at the end of the body;
\* the iteration's locals go out of scope
WorkerPost(w) ==
    /\ prog = "A"
    /\ pc[w] \in {"requeue_post", "post"}
    /\ task_semaphore' = task_semaphore + 1
    /\ current_task' = [current_task EXCEPT ![w] = NoTask]
    /\ processor_id' = [processor_id EXCEPT ![w] = -1]
    /\ pc' = [pc EXCEPT ![w] = "top"]
    /\ UNCHANGED <<varsB, prog, shutdown, tasks, next_task_id, processor_status,
                   processor_task_count, tasks_to_redirect, redirected,
                   submitted>>
    /\ UNCHANGED <<task_mutex, processor_mutex>>

MainStep ==
    \/ \E k \in TaskKinds : MainAddTask(k[1], k[2])
    \/ \E p \in Processors : ProcessorFailure(Main, p)
    \/ \E p \in Processors : ProcessorRepair(p)
    \/ Stop
    \/ StopNotify
    \/ StopJoin
    \/ \E k \in TaskKinds : Redirect(Main, k[1], k[2])

WorkerStep(w) ==
    \/ WorkerDequeue(w)
    \/ WorkerAcquire(w)
    \/ \E p \in Processors : ProcessorFailure(w, p)
    \/ \E k \in TaskKinds : Redirect(w, k[1], k[2])
    \/ WorkerSelect(w)
    \/ WorkerRequeue(w)
    \/ WorkerRelease(w)
    \/ WorkerPost(w)

NextA ==
    \/ MainStep
    \/ \E w \in Workers : WorkerStep(w)
    \/ \E w \in Workers : SpuriousWakeup(w)

\* ============================================================ variant B
\* DataPacket::operator< is Task::operator< on priority and is_critical.

\* pc after thread t has called data_condition.notify_one(): only the server
\* ever waits on data_condition
NotifyOneB(t, next) ==
    IF bpc[Server] = "waiting"
    THEN [bpc EXCEPT ![t] = next, ![Server] = "top"]
    ELSE [bpc EXCEPT ![t] = next]

\* station_thread: while (!shutdown)
StationTop(s) ==
    /\ prog = "B"
    /\ bpc[s] = "top"
    /\ IF shutdown
       THEN bpc' = [bpc EXCEPT ![s] = "done"]
       ELSE /\ BagCardinality(data_packets)
                 + Cardinality({x \in Stations : bpc[x] = "send"}) < MaxPackets
            /\ bpc' = [bpc EXCEPT ![s] = "send"]
    /\ UNCHANGED <<varsA, varsB_but_bpc, prog, shutdown>>

\* station_thread: add_data_packet(priority, is_critical, station_id), then
\* the sleep
AddDataPacket(s, priority, is_critical) ==
    /\ prog = "B"
    /\ bpc[s] = "send"
    /\ data_packets' = Push(data_packets, [priority |-> priority,
                                           is_critical |-> is_critical,
                                           station_id |-> s])
    /\ bpc' = NotifyOneB(s, "top")
    /\ UNCHANGED <<varsA, prog, shutdown, data_semaphore, current_load,
                   additional_handlers, emergency_mode, packet, load,
                   processing_time>>

\* simulate_emergency()
SimulateEmergency ==
    /\ prog = "B"
    /\ bpc[Main] = "run"
    /\ emergency_mode' = TRUE
    /\ UNCHANGED <<varsA, prog, shutdown, data_packets, data_semaphore,
                   current_load, additional_handlers, bpc, packet, load,
                   processing_time>>

\* stop(): shutdown = true under data_mutex
StopB ==
    /\ prog = "B"
    /\ bpc[Main] = "run"
    /\ shutdown' = TRUE
    /\ bpc' = [bpc EXCEPT ![Main] = "stop_notify"]
    /\ UNCHANGED <<varsA, varsB_but_bpc, prog>>

\* stop(): data_condition.notify_all(), which wakes the server if it waits
StopNotifyB ==
    /\ prog = "B"
    /\ bpc[Main] = "stop_notify"
    /\ bpc' = NotifyOneB(Main, "join")
    /\ UNCHANGED <<varsA, varsB_but_bpc, prog, shutdown>>

\* stop(): station_threads.join_all() and server_thread.join() return
StopJoinB ==
    /\ prog = "B"
    /\ bpc[Main] = "join"
    /\ \A t \in Stations \cup {Server} : bpc[t] = "done"
    /\ bpc' = [bpc EXCEPT ![Main] = "stopped"]
    /\ UNCHANGED <<varsA, varsB_but_bpc, prog, shutdown>>

\* server_handler: while (!shutdown), then the section under data_mutex
ServerDequeue ==
    /\ prog = "B"
    /\ bpc[Server] = "top"
    /\ IF shutdown
       THEN /\ bpc' = [bpc EXCEPT ![Server] = "done"]
            /\ UNCHANGED <<data_packets, packet>>
       ELSE IF data_packets = EmptyBag
       THEN /\ bpc' = [bpc EXCEPT ![Server] = "waiting"]
            /\ UNCHANGED <<data_packets, packet>>
       ELSE \E x \in BagToSet(data_packets) :
            /\ IsTop(data_packets, x)
            /\ packet' = x
            /\ data_packets' = Pop(data_packets, x)
            /\ bpc' = [bpc EXCEPT ![Server] = "sem"]
    /\ UNCHANGED <<varsA, prog, shutdown, data_semaphore, current_load,
                   additional_handlers, emergency_mode, load, processing_time>>

\* data_condition.wait(lock) may return without a notification
SpuriousWakeupB ==
    /\ prog = "B"
    /\ bpc[Server] = "waiting"
    /\ bpc' = [bpc EXCEPT ![Server] = "top"]
    /\ UNCHANGED <<varsA, varsB_but_bpc, prog, shutdown>>

\* data_semaphore.wait(): before the packet is handled, and in the step that
\* switches a handler off (there followed by the post() that ends the body)
ServerAcquire ==
    /\ prog = "B"
    /\ bpc[Server] \in {"sem", "shrink"}
    /\ data_semaphore > 0
    /\ IF bpc[Server] = "sem"
       THEN /\ data_semaphore' = data_semaphore - 1
            /\ bpc' = [bpc EXCEPT ![Server] = "load"]
            /\ UNCHANGED <<packet, load, processing_time>>
       ELSE /\ data_semaphore' = data_semaphore
            /\ bpc' = [bpc EXCEPT ![Server] = "top"]
            /\ packet' = NoPacket
            /\ load' = 0
            /\ processing_time' = 0
    /\ UNCHANGED <<varsA, prog, shutdown, data_packets, current_load,
                   additional_handlers, emergency_mode>>

\* Mutant of ServerLoad: the headroom is not tested.
ServerLoadUnbounded ==
    /\ prog = "B"
    /\ bpc[Server] = "load"
    /\ load' = current_load
    /\ IF current_load > HighLoad
       THEN /\ additional_handlers' = additional_handlers + 1
            /\ data_semaphore' = data_semaphore + 1
       ELSE UNCHANGED <<additional_handlers, data_semaphore>>
    /\ bpc' = [bpc EXCEPT ![Server] = "emergency"]
    /\ UNCHANGED <<varsA, prog, shutdown, data_packets, current_load,
                   emergency_mode, packet, processing_time>>

\* int load = current_load.load(); under high load one more handler
ServerLoad ==
    /\ prog = "B"
    /\ bpc[Server] = "load"
    /\ load' = current_load
    /\ IF current_load > HighLoad /\ additional_handlers < MaxAdditional
       THEN /\ additional_handlers' = additional_handlers + 1
            /\ data_semaphore' = data_semaphore + 1
       ELSE UNCHANGED <<additional_handlers, data_semaphore>>
    /\ bpc' = [bpc EXCEPT ![Server] = "emergency"]
    /\ UNCHANGED <<varsA, prog, shutdown, data_packets, current_load,
                   emergency_mode, packet, processing_time>>

\* Mutant of Shed: critical packets are dropped as well.
ShedIgnoresCritical(pkt) == pkt.priority > ShedPriority

\* the packets the emergency mode drops
Shed(pkt) == pkt.priority > ShedPriority /\ ~pkt.is_critical

\* Mutant of ServerEmergency: the drop path forgets the post().
ServerEmergencyKeepsSlot ==
    /\ prog = "B"
    /\ bpc[Server] = "emergency"
    /\ IF emergency_mode /\ Shed(packet)
       THEN /\ bpc' = [bpc EXCEPT ![Server] = "top"]
            /\ packet' = NoPacket
            /\ load' = 0
            /\ UNCHANGED data_semaphore
       ELSE /\ bpc' = [bpc EXCEPT ![Server] = "process"]
            /\ UNCHANGED <<data_semaphore, packet, load>>
    /\ UNCHANGED <<varsA, prog, shutdown, data_packets, current_load,
                   additional_handlers, emergency_mode, processing_time>>

\* if (emergency_mode): drop the packet, post() and continue, or go on
ServerEmergency ==
    /\ prog = "B"
    /\ bpc[Server] = "emergency"
    /\ IF emergency_mode /\ Shed(packet)
       THEN /\ data_semaphore' = data_semaphore + 1
            /\ bpc' = [bpc EXCEPT ![Server] = "top"]
            /\ packet' = NoPacket
            /\ load' = 0
       ELSE /\ bpc' = [bpc EXCEPT ![Server] = "process"]
            /\ UNCHANGED <<data_semaphore, packet, load>>
    /\ UNCHANGED <<varsA, prog, shutdown, data_packets, current_load,
                   additional_handlers, emergency_mode, processing_time>>

\* int processing_time = 100 + (rand() % 400) * (current_load / 100.0)
ProcessingTime(r, l) == 100 + (r * l) \div 100

\* the packet is announced and its processing starts (the sleep)
ServerProcess(r) ==
    /\ prog = "B"
    /\ bpc[Server] = "process"
    /\ processing_time' = ProcessingTime(r, current_load)
    /\ bpc' = [bpc EXCEPT ![Server] = "exec"]
    /\ UNCHANGED <<varsA, prog, shutdown, data_packets, data_semaphore,
                   current_load, additional_handlers, emergency_mode, packet,
                   load>>

\* Mutant of NewLoad: the cut at max_load is missing.
NewLoadUnclamped(l, t) == l + (t \div 10)

\* new_load = load + processing_time / 10, cut at max_load
NewLoad(l, t) ==
    IF l + (t \div 10) > max_load THEN max_load ELSE l + (t \div 10)

\* Mutant of ServerFinish: the comparison with the low-load mark is turned
\* round.
ServerFinishShrinksWhenBusy ==
    /\ prog = "B"
    /\ bpc[Server] = "exec"
    /\ LET new_load == NewLoad(load, processing_time)
       IN  /\ current_load' = new_load
           /\ IF new_load > LowLoad /\ additional_handlers > 0
              THEN /\ additional_handlers' = additional_handlers - 1
                   /\ bpc' = [bpc EXCEPT ![Server] = "shrink"]
                   /\ UNCHANGED <<data_semaphore, packet, load, processing_time>>
              ELSE /\ data_semaphore' = data_semaphore + 1
                   /\ bpc' = [bpc EXCEPT ![Server] = "top"]
                   /\ packet' = NoPacket
                   /\ load' = 0
                   /\ processing_time' = 0
                   /\ UNCHANGED additional_handlers
    /\ UNCHANGED <<varsA, prog, shutdown, data_packets, emergency_mode>>

\* the sleep is over: the load is stored; under low load a handler is
\* switched off; post() ends the body
ServerFinish ==
    /\ prog = "B"
    /\ bpc[Server] = "exec"
    /\ LET new_load == NewLoad(load, processing_time)
       IN  /\ current_load' = new_load
           /\ IF new_load < LowLoad /\ additional_handlers > 0
              THEN /\ additional_handlers' = additional_handlers - 1
                   /\ bpc' = [bpc EXCEPT ![Server] = "shrink"]
                   /\ UNCHANGED <<data_semaphore, packet, load, processing_time>>
              ELSE /\ data_semaphore' = data_semaphore + 1
                   /\ bpc' = [bpc EXCEPT ![Server] = "top"]
                   /\ packet' = NoPacket
                   /\ load' = 0
                   /\ processing_time' = 0
                   /\ UNCHANGED additional_handlers
    /\ UNCHANGED <<varsA, prog, shutdown, data_packets, emergency_mode>>

MainStepB ==
    \/ SimulateEmergency
    \/ StopB
    \/ StopNotifyB
    \/ StopJoinB

StationStep(s) ==
    \/ StationTop(s)
    \/ \E k \in TaskKinds : AddDataPacket(s, k[1], k[2])

ServerStep ==
    \/ ServerDequeue
    \/ ServerAcquire
    \/ ServerLoad
    \/ ServerEmergency
    \/ \E r \in Rand400 : ServerProcess(r)
    \/ ServerFinish

NextB ==
    \/ MainStepB
    \/ \E s \in Stations : StationStep(s)
    \/ ServerStep
    \/ SpuriousWakeupB

Next == NextA \/ NextB

Spec == Init /\ [][Next]_vars

\* Every thread that can take a step of its code takes one in the end; the
\* calls the main thread chooses to make (add_task, processor_failure,
\* processor_repair, simulate_emergency, stop) and wake-ups without a
\* notification are not owed.
Fairness ==
    /\ \A w \in Workers : WF_vars(WorkerStep(w))
    /\ WF_vars(\E k \in TaskKinds : Redirect(Main, k[1], k[2]))
    /\ WF_vars(StopNotify)
    /\ WF_vars(StopJoin)
    /\ \A s \in Stations : WF_vars(StationStep(s))
    /\ WF_vars(ServerStep)
    /\ WF_vars(StopNotifyB)
    /\ WF_vars(StopJoinB)

FairSpec == Init /\ [][Next]_vars /\ Fairness

\* ---------------------------------------------------- a steady trickle
\* Variant A fed without end with tasks of one order class, the lowest of
\* TaskKinds: main() submits its first task (id 1), and every later add_task
\* brings a task of the same class; the ids of the later tasks are not told
\* apart (id 2).  No failure is injected, so no task of another class is made.
LowPriority == 4

LaterAddTask ==
    /\ prog = "A"
    /\ pc[Main] = "run"
    /\ submitted >= 1
    /\ BagCardinality(tasks) < MaxQueue
    /\ AddTask(Main, LowPriority, FALSE, 2, "run")
    /\ UNCHANGED <<varsB, prog, shutdown, task_semaphore, processor_status,
                   processor_task_count, current_task, processor_id,
                   tasks_to_redirect, redirected, submitted>>
    /\ task_mutex' = {} /\ UNCHANGED processor_mutex

WorkerStepNoFailure(w) ==
    \/ WorkerDequeue(w)
    \/ WorkerAcquire(w)
    \/ WorkerSelect(w)
    \/ WorkerRelease(w)
    \/ WorkerPost(w)

TrickleNext ==
    \/ submitted = 0 /\ MainAddTask(LowPriority, FALSE)
    \/ LaterAddTask
    \/ \E w \in Workers : WorkerStepNoFailure(w)
    \/ \E w \in Workers : SpuriousWakeup(w)

TrickleInit == Init /\ prog = "A"

TrickleSpec ==
    /\ TrickleInit
    /\ [][TrickleNext]_vars
    /\ \A w \in Workers : WF_vars(WorkerStepNoFailure(w))

\* ------------------------------------------------------ explicit locking
\* Variant A with the lock() that opens every mutex section as a step of its
\* own: a thread first takes the mutex, then runs the section, which ends
\* with the mutex free again (the end of the scope, lock.unlock(), or
\* task_condition.wait()).

\* positions at which the next statement of thread t locks task_mutex:
\* add_task and stop() called by main(), the head of the worker loop,
\* add_task inside processor_failure, the push on the requeue path
TaskLockSites(t) ==
    IF t = Main THEN {"run", "redirect"} ELSE {"top", "redirect", "requeue"}

\* ... and processor_mutex: processor_failure and processor_repair, the
\* selection of a processor, the release of the processor
ProcessorLockSites(t) ==
    IF t = Main THEN {"run"} ELSE {"prehook", "select", "exec"}

\* boost::unique_lock<boost::mutex> lock(task_mutex); a thread that makes
\* calls one after the other is not inside another call
LockTask(t) ==
    /\ prog = "A"
    /\ pc[t] \in TaskLockSites(t)
    /\ pc[t] = "run" => processor_mutex # {t}
    /\ task_mutex = {}
    /\ task_mutex' = {t}
    /\ UNCHANGED <<varsB, prog, shutdown, varsA_but_pc, pc, processor_mutex>>

\* boost::unique_lock<boost::mutex> lock(processor_mutex)
LockProcessor(t) ==
    /\ prog = "A"
    /\ pc[t] \in ProcessorLockSites(t)
    /\ pc[t] = "run" => task_mutex # {t}
    /\ processor_mutex = {}
    /\ processor_mutex' = {t}
    /\ UNCHANGED <<varsB, prog, shutdown, varsA_but_pc, pc, task_mutex>>

\* a step of thread t: a lock(), a section under the mutex t holds, or a
\* step outside every section
LockStep(t) ==
    \/ LockTask(t)
    \/ LockProcessor(t)
    \/ \E k \in TaskKinds :
           t = Main /\ task_mutex = {t} /\ MainAddTask(k[1], k[2])
    \/ \E k \in TaskKinds : task_mutex = {t} /\ Redirect(t, k[1], k[2])
    \/ t = Main /\ task_mutex = {t} /\ Stop
    \/ \E p \in Processors : processor_mutex = {t} /\ ProcessorFailure(t, p)
    \/ \E p \in Processors :
           t = Main /\ processor_mutex = {t} /\ ProcessorRepair(p)
    \/ t = Main /\ StopNotify
    \/ t = Main /\ StopJoin
    \/ t \in Workers /\ task_mutex = {t} /\ WorkerDequeue(t)
    \/ t \in Workers /\ task_mutex = {t} /\ WorkerRequeue(t)
    \/ t \in Workers /\ processor_mutex = {t} /\ WorkerSelect(t)
    \/ t \in Workers /\ processor_mutex = {t} /\ WorkerRelease(t)
    \/ t \in Workers /\ WorkerAcquire(t)
    \/ t \in Workers /\ WorkerPost(t)

LockNext ==
    \/ \E t \in Threads : LockStep(t)
    \/ \E w \in Workers : SpuriousWakeup(w)

LockInit == Init /\ prog = "A"

LockSpec == LockInit /\ [][LockNext]_vars

\* ================================================================ claims
\* The order the specification gives: a is ordered above b iff a is critical
\* and b is not, or both are equally critical and a.priority < b.priority.
HigherOrdered(a, b) ==
    \/ a.is_critical /\ ~b.is_critical
    \/ a.is_critical = b.is_critical /\ a.priority < b.priority

WorkerPops(w) == pc[w] = "top" /\ pc'[w] = "sem"
ServerPops == bpc[Server] = "top" /\ bpc'[Server] = "sem"

\* C1: in both programs every pop takes one item out of the queue, and no
\* item left in the queue at that instant is ordered strictly above it; pops
\* that follow each other with no push in between therefore come out in
\* non-increasing (critical, -priority) order.
C1_PopTakesHighest ==
    [][ /\ \A w \in Workers : WorkerPops(w) =>
              /\ tasks = Push(tasks', current_task'[w])
              /\ \A y \in BagToSet(tasks') : ~HigherOrdered(y, current_task'[w])
        /\ ServerPops =>
              /\ data_packets = Push(data_packets', packet')
              /\ \A y \in BagToSet(data_packets') : ~HigherOrdered(y, packet')
      ]_vars

\* a worker holds a critical task of priority 4 it has just popped while a
\* non-critical task of priority 3 stays in the queue
C1_Witness ==
    \E w \in Workers :
        /\ pc[w] = "sem"
        /\ current_task[w].is_critical
        /\ current_task[w].priority = 4
        /\ \E y \in BagToSet(tasks) : ~y.is_critical /\ y.priority = 3

\* Workers between task_semaphore.wait() and task_semaphore.post()
InFlight ==
    {w \in Workers : pc[w] \in {"prehook", "redirect", "select", "requeue",
                                "requeue_post", "exec", "post"}}

\* C2: the workers that have passed task_semaphore.wait() and not yet called
\* post() never outnumber the capacity of the gate.
C2_AdmissionBound == prog = "A" => Cardinality(InFlight) <= SemCapacity

\* the gate is full, one more worker holds a task and waits at the gate, and
\* a processor has failed
C2_Witness ==
    /\ Cardinality(InFlight) = SemCapacity
    /\ \E w \in Workers : pc[w] = "sem"
    /\ \E p \in Processors : ~processor_status[p]

RECURSIVE SumCounts(_)
SumCounts(S) ==
    IF S = {} THEN 0
    ELSE LET p == CHOOSE x \in S : TRUE
         IN  processor_task_count[p] + SumCounts(S \ {p})

\* queue empty and every worker blocked in task_condition.wait()
Quiescent ==
    /\ prog = "A"
    /\ tasks = EmptyBag
    /\ \A w \in Workers : pc[w] = "waiting"

\* C3: at quiescence the task counts of all processors sum to 0 and every
\* slot of the gate is free.
C3_NoLeak ==
    Quiescent => SumCounts(Processors) = 0 /\ task_semaphore = SemCapacity

\* quiescence after a failure has redirected work and with a processor
\* still down
C3_Witness ==
    /\ Quiescent
    /\ next_task_id > 1
    /\ \E p \in Processors : ~processor_status[p]

\* thread t takes a step of the loop of processor_failure
RedirectStep(t) ==
    /\ pc[t] = "redirect"
    /\ \/ pc'[t] # "redirect"
       \/ redirected'[t] # redirected[t]
       \/ tasks_to_redirect'[t] # tasks_to_redirect[t]

\* C4: processor_failure on a healthy processor of count k zeroes the count
\* in the step that marks it unhealthy, and the call then pushes exactly k
\* items: none when k = 0, else every pass of its loop pushes one item and
\* counts it, and the loop is left with the k-th push and not before.
C4_FailureConservation ==
    [][ /\ \A p \in Processors :
              (processor_status[p] /\ ~processor_status'[p]) =>
                  /\ processor_task_count'[p] = 0
                  /\ tasks' = tasks
                  /\ IF processor_task_count[p] = 0
                     THEN \A t \in Threads :
                              pc'[t] = "redirect" => pc[t] = "redirect"
                     ELSE \E t \in Threads :
                              /\ pc[t] # "redirect"
                              /\ pc'[t] = "redirect"
                              /\ tasks_to_redirect'[t] = processor_task_count[p]
                              /\ redirected'[t] = 0
        /\ \A t \in Threads :
              /\ (pc'[t] = "redirect" /\ pc[t] # "redirect") =>
                     \E p \in Processors :
                         processor_status[p] /\ ~processor_status'[p]
              /\ RedirectStep(t) =>
                     /\ BagCardinality(tasks') = BagCardinality(tasks) + 1
                     /\ redirected[t] < tasks_to_redirect[t]
                     /\ IF pc'[t] = "redirect"
                        THEN /\ redirected'[t] = redirected[t] + 1
                             /\ redirected'[t] < tasks_to_redirect[t]
                             /\ tasks_to_redirect'[t] = tasks_to_redirect[t]
                        ELSE redirected[t] + 1 = tasks_to_redirect[t]
      ]_vars

\* the main thread is inside the loop of processor_failure while a worker
\* still executes on the processor that failed
C4_Witness ==
    /\ pc[Main] = "redirect"
    /\ tasks_to_redirect[Main] >= 1
    /\ \E w \in Workers : pc[w] = "exec" /\ ~processor_status[processor_id[w]]

\* C5 (as claimed): while emergency mode is active no non-critical packet of
\* priority > 3 enters the processing step.
C5_NoLowPriorityUnderEmergency ==
    [][ (bpc[Server] = "process" /\ bpc'[Server] = "exec" /\ emergency_mode)
            => ~(~packet.is_critical /\ packet.priority > 3) ]_vars

\* the packets the emergency mode must never drop
Exempt(pkt) == pkt.is_critical \/ pkt.priority <= 3

\* the position that follows on the way from the dequeue to the processing
OnWay(l) ==
    CASE l = "sem" -> "load"
      [] l = "load" -> "emergency"
      [] l = "emergency" -> "process"
      [] l = "process" -> "exec"

\* C6: a dequeued packet that is critical, or of priority <= 3, is never
\* dropped: from the dequeue on, every step of the server keeps the packet
\* and moves it one position on towards its processing, emergency or not.
C6_ExemptNeverShed ==
    [][ (bpc[Server] \in {"sem", "load", "emergency", "process"} /\ Exempt(packet))
            => /\ packet' = packet
               /\ bpc'[Server] \in {bpc[Server], OnWay(bpc[Server])} ]_vars

\* a critical packet of priority 4 is processed under emergency mode
C6_Witness ==
    /\ emergency_mode
    /\ bpc[Server] = "exec"
    /\ packet.is_critical
    /\ packet.priority = 4

\* copies of x in bag b
Copies(b, x) == IF BagIn(x, b) THEN b[x] ELSE 0

\* C8: once the shutdown flag is set nothing leaves either queue and no
\* worker (no server) takes an item: what is pushed after shutdown, and what
\* was pending at shutdown, stays in the queue.
C8_NoDispatchAfterShutdown ==
    [][ shutdown =>
          /\ \A x \in BagToSet(tasks) : Copies(tasks', x) >= Copies(tasks, x)
          /\ \A w \in Workers :
                current_task'[w] # current_task[w] => current_task'[w] = NoTask
          /\ \A x \in BagToSet(data_packets) :
                Copies(data_packets', x) >= Copies(data_packets, x)
          /\ packet' # packet => packet' = NoPacket
      ]_vars

\* all workers have left on shutdown and items are still in the queue
C8_Witness ==
    /\ shutdown
    /\ tasks # EmptyBag
    /\ \A w \in Workers : pc[w] = "done"

\* C9 (as claimed): no worker begins to execute an item once the shutdown
\* flag is set.
C9_NoExecutionAfterShutdown ==
    [][ \A w \in Workers :
            (pc[w] # "exec" /\ pc'[w] = "exec") => ~shutdown ]_vars

\* every thread stop() joins has returned, and so has stop()
AllTerminated ==
    /\ prog = "A" => \A t \in Threads : pc[t] = IF t = Main THEN "stopped" ELSE "done"
    /\ prog = "B" => \A t \in ThreadsB : bpc[t] = IF t = Main THEN "stopped" ELSE "done"

\* C7: once stop() has set the shutdown flag every worker, station and the
\* server terminates, whatever it was doing or waiting for, and stop()
\* returns (under FairSpec).
C7_ShutdownTerminates == shutdown ~> AllTerminated

\* stop() has returned in variant A with items left in the queue
C7_Witness ==
    /\ prog = "A"
    /\ AllTerminated
    /\ tasks # EmptyBag

\* the first task main() submits under the trickle
FirstTask == [priority |-> LowPriority, is_critical |-> FALSE, task_id |-> 1]

\* C10 (as claimed): with only tasks of one low class arriving and workers
\* scheduled fairly, a task that is in the queue is dequeued in the end
\* (under TrickleSpec).
C10_NoStarvation == BagIn(FirstTask, tasks) ~> ~BagIn(FirstTask, tasks)

\* C11 (as claimed): no worker begins to execute an item while an item
\* ordered strictly above it is in the queue and another worker is blocked
\* in task_condition.wait().
C11_NoInversionWhileIdle ==
    [][ \A w \in Workers :
            (pc[w] # "exec" /\ pc'[w] = "exec") =>
                ~ /\ \E y \in BagToSet(tasks) : HigherOrdered(y, current_task[w])
                  /\ \E v \in Workers \ {w} : pc[v] = "waiting" ]_vars

\* C12: invalid administrative requests are no-ops.  A processor_failure a
\* worker makes when every processor is already unhealthy changes no status,
\* no count and pushes nothing; a request of main() that returns at once
\* without marking a processor (processor_failure on an unhealthy processor,
\* processor_repair on a healthy one) changes no state at all; and
\* processor_repair on an unhealthy processor changes its flag and nothing
\* else.
C12_InvalidRequestsNoOp ==
    [][ /\ \A w \in Workers :
              (pc[w] = "prehook" /\ pc'[w] = "select" /\ Healthy = {}) =>
                  /\ processor_status' = processor_status
                  /\ processor_task_count' = processor_task_count
                  /\ tasks' = tasks
                  /\ next_task_id' = next_task_id
                  /\ tasks_to_redirect' = tasks_to_redirect
        /\ (pc[Main] = "run" /\ pc' = pc /\ tasks' = tasks
                /\ processor_status' = processor_status) =>
              /\ processor_task_count' = processor_task_count
              /\ task_semaphore' = task_semaphore
              /\ next_task_id' = next_task_id
              /\ current_task' = current_task
        /\ \A p \in Processors :
              (~processor_status[p] /\ processor_status'[p]) =>
                  /\ processor_status' = [processor_status EXCEPT ![p] = TRUE]
                  /\ processor_task_count' = processor_task_count
                  /\ tasks' = tasks
                  /\ next_task_id' = next_task_id
                  /\ task_semaphore' = task_semaphore
                  /\ pc' = pc
      ]_vars

\* a processor that failed under a worker has been repaired: it is healthy
\* again, its count is still 0 and the worker still executes on it
C12_Witness ==
    /\ pc[Main] = "run"
    /\ \E w \in Workers :
           /\ pc[w] = "exec"
           /\ processor_status[processor_id[w]]
           /\ processor_task_count[processor_id[w]] = 0

\* workers that hold an item of their own: taken from the queue and not (yet)
\* pushed back
Holding ==
    {w \in Workers : pc[w] \in {"sem", "prehook", "redirect", "select",
                                "requeue", "exec", "post"}}

\* items with id i that are in the queue or in a worker's hands
LiveWithId(i) ==
    Cardinality({w \in Holding : current_task[w].task_id = i})
        + BagCardinality([x \in {y \in BagToSet(tasks) : y.task_id = i} |-> tasks[x]])

\* C13 (as claimed): main() passes pairwise distinct ids and the system
\* numbers the replacement items, so no two items carry the same id: at any
\* instant at most one item of a given id is in the queue or in a worker's
\* hands.
C13_UniqueIds ==
    \A i \in 1..(MaxTaskId + 2) : LiveWithId(i) <= 1

\* C14: a worker begins to execute only on a healthy processor; one that
\* holds a slot and finds no healthy processor takes the requeue path, on
\* which it pushes back the very item it dequeued, then releases one slot,
\* touches no task count and returns to the head of its loop; and every
\* other push onto the queue is an add_task, which makes a new item.
C14_RequeueIntact ==
    [][ /\ \A w \in Workers :
              /\ (pc[w] # "exec" /\ pc'[w] = "exec") => Healthy # {}
              /\ (pc[w] = "select" /\ pc'[w] # "select" /\ Healthy = {}) =>
                     pc'[w] = "requeue"
              /\ (pc[w] # "requeue" /\ pc'[w] = "requeue") =>
                     /\ pc[w] \in {"prehook", "select"}
                     /\ Healthy = {}
                     /\ tasks' = tasks
                     /\ task_semaphore' = task_semaphore
                     /\ processor_task_count' = processor_task_count
                     /\ current_task'[w] = current_task[w]
              /\ (pc[w] = "requeue" /\ pc'[w] # "requeue") =>
                     /\ pc'[w] = "requeue_post"
                     /\ current_task[w] # NoTask
                     /\ tasks' = Push(tasks, current_task[w])
                     /\ task_semaphore' = task_semaphore
                     /\ processor_task_count' = processor_task_count
              /\ (pc[w] = "requeue_post" /\ pc'[w] # "requeue_post") =>
                     /\ pc'[w] = "top"
                     /\ tasks' = tasks
                     /\ task_semaphore' = task_semaphore + 1
                     /\ processor_task_count' = processor_task_count
        /\ BagCardinality(tasks') > BagCardinality(tasks) =>
              \/ \E w \in Workers : pc[w] = "requeue" /\ pc'[w] = "requeue_post"
              \/ submitted' = submitted + 1
              \/ next_task_id' = next_task_id + 1
      ]_vars

\* a worker has pushed its critical item back and still holds the slot
C14_Witness ==
    \E w \in Workers :
        /\ pc[w] = "requeue_post"
        /\ current_task[w].is_critical
        /\ BagIn(current_task[w], tasks)
        /\ task_semaphore = 0
        /\ Healthy = {}

\* the server is between two iterations of its loop
ServerIdle == bpc[Server] \in {"top", "waiting", "done"}

\* C15: the slot the server takes for a packet is given back on every way
\* out of the iteration: whenever the server is between two iterations the
\* free count of data_semaphore is base_handlers + additional_handlers, and
\* in every state the slots held are between 0 and that capacity.
C15_SlotReleased ==
    prog = "B" =>
        /\ data_semaphore >= 0
        /\ data_semaphore <= base_handlers + additional_handlers
        /\ ServerIdle => data_semaphore = base_handlers + additional_handlers

\* the server is back at the head of its loop under emergency mode with all
\* three additional handlers switched on and every slot free
C15_Witness ==
    /\ bpc[Server] = "top"
    /\ emergency_mode
    /\ additional_handlers = MaxAdditional
    /\ data_semaphore = base_handlers + MaxAdditional

\* the server ends the processing of a packet
ServerFinishes == bpc[Server] = "exec" /\ bpc'[Server] # "exec"

\* C16: current_load stays within 0..100; the step that ends the processing
\* of a packet stores min(100, load + processing_time / 10), load being the
\* value read at the start of the iteration; no other step, the drop of a
\* packet included, changes current_load.
C16_LoadUpdate ==
    /\ [](prog = "B" => current_load >= 0 /\ current_load <= 100)
    /\ [][ /\ ServerFinishes =>
                 current_load' = IF load + (processing_time \div 10) > 100
                                 THEN 100
                                 ELSE load + (processing_time \div 10)
           /\ (bpc[Server] = "load" /\ bpc'[Server] # "load") =>
                 load' = current_load
           /\ ~ServerFinishes => current_load' = current_load
         ]_vars

\* the sum 68 + 371 / 10 = 105 has been cut to 100
C16_Witness ==
    /\ bpc[Server] = "top"
    /\ current_load = max_load
    /\ additional_handlers = 0

\* C17: additional_handlers stays within 0..3; it grows only in the step
\* that reads the load, by one and with one post(), when the load read is
\* above 80 and additional_handlers is below 3, and in every such step it
\* grows.
C17_Growth ==
    /\ [](prog = "B" => additional_handlers >= 0 /\ additional_handlers <= 3)
    /\ [][ /\ additional_handlers' > additional_handlers =>
                 /\ bpc[Server] = "load"
                 /\ load' > 80
                 /\ additional_handlers < 3
                 /\ additional_handlers' = additional_handlers + 1
                 /\ data_semaphore' = data_semaphore + 1
           /\ (bpc[Server] = "load" /\ bpc'[Server] # "load"
                   /\ load' > 80 /\ additional_handlers < 3) =>
                 /\ additional_handlers' = additional_handlers + 1
                 /\ data_semaphore' = data_semaphore + 1
         ]_vars

\* the load read is above 80 and the headroom is used up: no growth
C17_Witness ==
    /\ bpc[Server] = "emergency"
    /\ load > HighLoad
    /\ additional_handlers = MaxAdditional
    /\ data_semaphore = base_handlers + MaxAdditional - 1

\* C20: current_load never goes down: every processed packet adds at least
\* 10 before the cut at 100; so the step that switches a handler off (new
\* load below 50 with additional_handlers > 0) is never taken and
\* additional_handlers never goes down.
C20_NoShrink ==
    [][ /\ current_load' >= current_load
        /\ additional_handlers' >= additional_handlers
        /\ bpc'[Server] # "shrink"
        /\ ServerFinishes =>
              /\ processing_time \div 10 >= 10
              /\ ~(current_load' < 50 /\ additional_handlers > 0)
      ]_vars

\* a packet has been processed with an additional handler on, and the
\* handler is still on
C20_Witness ==
    /\ bpc[Server] = "top"
    /\ ~emergency_mode
    /\ additional_handlers >= 1
    /\ current_load >= LowLoad

\* C18: an unhealthy processor has task count 0, and no task count is ever
\* negative.
C18_UnhealthyCountZero ==
    prog = "A" =>
        \A p \in Processors :
            /\ processor_task_count[p] >= 0
            /\ ~processor_status[p] => processor_task_count[p] = 0

\* a worker has finished on a processor that failed under it: the guarded
\* decrement found the count at 0 and left it there
C18_Witness ==
    \E w \in Workers :
        /\ pc[w] = "post"
        /\ ~processor_status[processor_id[w]]
        /\ processor_task_count[processor_id[w]] = 0

\* workers that execute on processor r
ExecutingOn(r) == {w \in Workers : pc[w] = "exec" /\ processor_id[w] = r}

\* C19: the task count of a processor is at most the number of workers that
\* execute on it, so the counts together never exceed the slots held (nor
\* the capacity of the gate); the two need not be equal once a processor has
\* failed and been repaired under a worker.
C19_CountAtMostExecuting ==
    prog = "A" =>
        /\ \A r \in Processors :
               processor_task_count[r] <= Cardinality(ExecutingOn(r))
        /\ SumCounts(Processors) <= SemCapacity - task_semaphore
        /\ SumCounts(Processors) <= SemCapacity

\* the processor is healthy again, its replacement item has been pushed, and
\* its count is below the number of workers that execute on it
C19_Witness ==
    /\ next_task_id > 1
    /\ \E r \in Processors :
           /\ processor_status[r]
           /\ processor_task_count[r] < Cardinality(ExecutingOn(r))

\* main() is inside a call of the simulator
MainInCall ==
    task_mutex = {Main} \/ processor_mutex = {Main} \/ pc[Main] = "redirect"

\* C21: no thread holds task_mutex and processor_mutex together; a worker
\* that holds processor_mutex already holds its admission slot; a worker at
\* the wait on the semaphore holds no mutex; and before shutdown either a
\* worker can take a step, or main() can take one inside the call it is
\* making, or all workers wait on an empty queue with every slot free
\* (under LockSpec).
C21_DeadlockFree ==
    prog = "A" =>
        /\ \A t \in Threads : ~(task_mutex = {t} /\ processor_mutex = {t})
        /\ \A w \in Workers : processor_mutex = {w} => w \in InFlight
        /\ \A w \in Workers :
               pc[w] = "sem" => task_mutex # {w} /\ processor_mutex # {w}
        /\ ~shutdown =>
               \/ ENABLED (\E w \in Workers : LockStep(w))
               \/ MainInCall /\ ENABLED LockStep(Main)
               \/ Quiescent /\ task_semaphore = SemCapacity

\* both mutexes are held, by different threads, the one that holds
\* task_mutex being inside the loop of processor_failure, while a worker is
\* blocked at the full gate
C21_Witness ==
    /\ ~shutdown
    /\ task_semaphore = 0
    /\ \E w \in Workers : pc[w] = "sem"
    /\ \E t1, t2 \in Threads :
           /\ t1 # t2
           /\ pc[t1] = "redirect"
           /\ task_mutex = {t1}
           /\ processor_mutex = {t2}
====
